---- MODULE Spec2Model ----
(***************************************************************************)
(* The Lindhard bubble and RPA pipeline of TRIQS_Meeting_2019.ipynb.       *)
(*                                                                         *)
(* Numbers.  The notebook computes with complex doubles.  Here every value *)
(* is an element of the prime field Z_P, P the least prime in which the    *)
(* roots of unity needed by the Fourier transforms exist, so that every    *)
(* transform is an exact finite sum.  One extra value, Singular, stands    *)
(* for the IEEE infinity that a division by zero stores.                   *)
(*                                                                         *)
(* Times.  A time is an integer in units of 1/(n_tau-1): beta is           *)
(* Beta*(n_tau-1) and the j-th sample of the time mesh is Beta*j, so a     *)
(* time that is no multiple of Beta lies strictly between two samples.     *)
(*                                                                         *)
(* Library calls (pytriqs / triqs) are modelled at the place the notebook  *)
(* calls them, by what they do to meshes and data.                         *)
(***************************************************************************)
EXTENDS Integers, Sequences, FiniteSets, TLC

\* ------------------------------------------------------------- bounds
\* n_k: linear number of momenta (64 in the notebook).
NK == 3
\* n_iw: number of positive fermionic Matsubara frequencies (20 there).
NIW == 2
\* Largest number of loops %%timeit runs a cell for.
MaxRuns == 2

\* ------------------------------------------------- parameter definition
Beta == 4
n_k == NK
n_iw == NIW
n_q == n_k
n_iW == n_iw

\* ---------------------------------------------------------- arithmetic
RECURSIVE Gcd(_, _)
Gcd(a, b) == IF b = 0 THEN a ELSE Gcd(b, a % b)

\* Order of the root of unity: n_k-th roots for the lattice transforms,
\* 2(n_tau-1)-th roots for exp(i w_n tau_j), n_tau = 6 n_iw + 1.
RootOrder == (NK * 12 * NIW) \div Gcd(NK, 12 * NIW)

IsPrime(p) == p > 1 /\ \A d \in 2..(p - 1) : p % d # 0

GoodPrime(p) == IsPrime(p) /\ (p - 1) % RootOrder = 0

P == CHOOSE p \in 2..(20 * RootOrder) :
        GoodPrime(p) /\ \A q \in 2..(p - 1) : ~GoodPrime(q)

RECURSIVE PowMod(_, _)
PowMod(b, e) == IF e = 0 THEN 1 ELSE (b * PowMod(b, e - 1)) % P

Zeta == CHOOSE g \in 2..(P - 1) :
           PowMod(g, RootOrder) = 1 /\ \A e \in 1..(RootOrder - 1) : PowMod(g, e) # 1

ZetaPow[e \in 0..(RootOrder - 1)] == IF e = 0 THEN 1 ELSE (ZetaPow[e - 1] * Zeta) % P

\* exp(2 pi i e / RootOrder)
Exp(e) == ZetaPow[e % RootOrder]

\* The imaginary unit.
ImagUnit == Exp(RootOrder \div 4)

\* What a division by zero stores.
Singular == -1

InvTab[x \in 1..(P - 1)] == CHOOSE y \in 1..(P - 1) : (x * y) % P = 1

Num(x) == x % P

AddF(a, b) == IF a = Singular \/ b = Singular THEN Singular ELSE (a + b) % P

SubF(a, b) == IF a = Singular \/ b = Singular THEN Singular ELSE (a - b) % P

MulF(a, b) == IF a = Singular \/ b = Singular THEN Singular ELSE (a * b) % P

\* 1/x of the library's inverse(): no exception, an infinity at x = 0.
InvF(a) == IF a = Singular THEN 0 ELSE IF a = 0 THEN Singular ELSE InvTab[a]

\* sum of f[0] .. f[n-1]
RECURSIVE SumTo(_, _)
SumTo(f, n) == IF n = 0 THEN 0 ELSE AddF(SumTo(f, n - 1), f[n - 1])

\* from numpy import pi: Z_P has no pi; a fixed element stands for it.  Only
\* the dependence of G0 on the frequency index passes through it.  With this
\* choice the notebook's own t = -1, mu = 0 has no vanishing denominator.
PiF == 4

\* --------------------------------------------------------------- meshes
NoStat == "None"

\* MeshBrillouinZone(BrillouinZone(BL), n): n x n momenta 2 pi (x, y) / n.
MeshBrillouinZone(n) == [kind |-> "bz", stat |-> NoStat, beta |-> 0, n |-> n]

\* The cyclic lattice of n x n sites, the Fourier dual of the momentum mesh.
MeshCyclicLattice(n) == [kind |-> "lattice", stat |-> NoStat, beta |-> 0, n |-> n]

\* MeshImFreq(beta, S, n): indices -n..n-1 (Fermion), -(n-1)..n-1 (Boson).
MeshImFreq(beta, stat, n) == [kind |-> "imfreq", stat |-> stat, beta |-> beta, n |-> n]

\* gf_mesh<imtime>{beta, S, n}: n samples j beta/(n-1), j = 0..n-1, both ends kept.
MeshImTime(beta, stat, n) == [kind |-> "imtime", stat |-> stat, beta |-> beta, n |-> n]

\* make_adjoint_mesh: the Fourier dual of a mesh, statistics and beta kept.
make_adjoint_mesh(m) ==
    CASE m.kind = "bz"      -> MeshCyclicLattice(m.n)
      [] m.kind = "lattice" -> MeshBrillouinZone(m.n)
      [] m.kind = "imfreq"  -> MeshImTime(m.beta, m.stat, 6 * m.n + 1)
      [] m.kind = "imtime"  -> MeshImFreq(m.beta, m.stat, (m.n - 1) \div 6)

Lat(n) == (0..(n - 1)) \X (0..(n - 1))

\* The i-th point of an n x n mesh, i = 0..n*n-1.
LatPt(i, n) == <<i \div n, i % n>>

\* Number of points along the (single) axis of a mesh.
Size(m) ==
    CASE m.kind \in {"bz", "lattice"} -> m.n * m.n
      [] m.kind = "imfreq" -> IF m.stat = "Fermion" THEN 2 * m.n ELSE 2 * m.n - 1
      [] m.kind = "imtime" -> m.n

\* The points of a mesh: pairs <<x, y>> on a lattice, positions 0..Size-1 else.
Points(m) == IF m.kind \in {"bz", "lattice"} THEN Lat(m.n) ELSE 0..(Size(m) - 1)

\* Twice the Matsubara frequency in units of pi/beta at position pos: 2n+1 or 2n.
Matsubara(m, pos) ==
    IF m.stat = "Fermion" THEN 2 * (pos - m.n) + 1 ELSE 2 * (pos - (m.n - 1))

k_mesh == MeshBrillouinZone(n_k)
iw_mesh == MeshImFreq(Beta, "Fermion", n_iw)
k_iw_mesh == <<k_mesh, iw_mesh>>
q_mesh == MeshBrillouinZone(n_q)
iW_mesh == MeshImFreq(Beta, "Boson", n_iW)
q_iW_mesh == <<q_mesh, iW_mesh>>

r_mesh == make_adjoint_mesh(k_mesh)
tau_mesh == make_adjoint_mesh(iw_mesh)
r_tau_mesh == <<r_mesh, tau_mesh>>
r_iw_mesh == <<r_mesh, iw_mesh>>

\* --------------------------------------------------- mesh-valued functions
\* Gf(mesh=MeshProduct(m1, m2), target_shape=[]): one scalar per point, zero.
Gf(mesh) == [mesh |-> mesh,
             data |-> [pt \in Points(mesh[1]) \X Points(mesh[2]) |-> 0]]

\* A name not bound yet.
NoGf == [mesh |-> <<>>, data |-> <<>>]

\* g1 * g2 of two Gf: the first operand's copy, multiplied pointwise.
GfMul(g1, g2) == [mesh |-> g1.mesh,
                  data |-> [pt \in DOMAIN g1.data |-> MulF(g1.data[pt], g2.data[pt])]]

\* The time of the j-th sample of a time mesh, and beta, in units of 1/(n-1).
TauVal(j) == Beta * j

BetaOf(m) == m.beta * (m.n - 1)

\* ---------------------------------------------------------- dispersion
\* hop: the four nearest-neighbour displacements, each with amplitude t.
Hop == {<<1, 0>>, <<-1, 0>>, <<0, 1>>, <<0, -1>>}

HopSeq == <<(<<1, 0>>), (<<-1, 0>>), (<<0, 1>>), (<<0, -1>>)>>

\* exp(i k.d) for the mesh momentum k = 2 pi (k[1], k[2]) / n.
Phase(k, d, n) == Exp((RootOrder \div n) * (k[1] * d[1] + k[2] * d[2]))

\* eps(BL, TB, k): the band energy  sum_d t exp(i k.d).
eps(t, k) == SumTo([i \in 0..3 |-> MulF(Num(t), Phase(k, HopSeq[i + 1], n_k))], 4)

\* i w_n at a position of the fermionic mesh.
iOmega(pos) == MulF(ImagUnit, MulF(Num(Matsubara(iw_mesh, pos)), MulF(PiF, InvF(Beta))))

G0Den(t, mu, k, pos) == AddF(SubF(iOmega(pos), eps(t, k)), Num(mu))

\* G0[k,iw] = 1. / (iw - eps(BL,TB,k) + mu) for k, iw in k_iw_mesh.
BuildG0(t, mu) ==
    [mesh |-> k_iw_mesh,
     data |-> [pt \in Points(k_mesh) \X Points(iw_mesh) |->
                  InvF(G0Den(t, mu, pt[1], pt[2]))]]

\* ------------------------------------------------------- Fourier transforms
\* make_gf_from_fourier of a function on one lattice mesh m (f: its data).
FourierLattice(m, f) ==
    LET n == m.n
        w(k, r) == (RootOrder \div n) * (k[1] * r[1] + k[2] * r[2])
    IN  IF m.kind = "bz"
        THEN [mesh |-> make_adjoint_mesh(m),
              data |-> [r \in Lat(n) |->
                 MulF(InvF(Num(n * n)),
                      SumTo([i \in 0..(n * n - 1) |->
                               MulF(Exp(w(LatPt(i, n), r)), f[LatPt(i, n)])], n * n))]]
        ELSE [mesh |-> make_adjoint_mesh(m),
              data |-> [q \in Lat(n) |->
                 SumTo([i \in 0..(n * n - 1) |->
                          MulF(Exp(-w(q, LatPt(i, n))), f[LatPt(i, n)])], n * n)]]

\* make_gf_from_fourier of a function on one frequency or time mesh m.  The mesh
\* of the argument decides the statistics: odd frequencies for a fermionic mesh,
\* even ones for a bosonic mesh.
FourierTime(m, f) ==
    LET adj == make_adjoint_mesh(m)
    IN  IF m.kind = "imfreq"
        THEN LET u == RootOrder \div (2 * (adj.n - 1))
             IN [mesh |-> adj,
                 data |-> [j \in Points(adj) |->
                    MulF(InvF(Num(m.beta)),
                         SumTo([p \in Points(m) |->
                                  MulF(Exp(-u * Matsubara(m, p) * j), f[p])], Size(m)))]]
        ELSE LET u == RootOrder \div (2 * (m.n - 1))
             IN [mesh |-> adj,
                 data |-> [p \in Points(adj) |->
                    MulF(MulF(Num(m.beta), InvF(Num(m.n - 1))),
                         SumTo([j \in 0..(m.n - 2) |->
                                  MulF(Exp(u * Matsubara(adj, p) * j), f[j])], m.n - 1))]]

\* g[:, b]: the slice of g at a point b of its second mesh.
SliceCol(g, b) == [a \in Points(g.mesh[1]) |-> g.data[<<a, b>>]]

\* g[a, :]: the slice of g at a point a of its first mesh.
SliceRow(g, a) == [b \in Points(g.mesh[2]) |-> g.data[<<a, b>>]]

\* for b in mesh2: out[:, b] = make_gf_from_fourier(g[:, b]).  The assignment
\* copies the data into the slice of out; out keeps its own mesh.
FourierAxis0Into(out, g) ==
    LET cols == [b \in Points(out.mesh[2]) |-> FourierLattice(g.mesh[1], SliceCol(g, b)).data]
    IN  [out EXCEPT !.data = [pt \in DOMAIN out.data |-> cols[pt[2]][pt[1]]]]

\* for a in mesh1: out[a, :] = make_gf_from_fourier(g[a, :]).
FourierAxis1Into(out, g) ==
    LET rows == [a \in Points(out.mesh[1]) |-> FourierTime(g.mesh[2], SliceRow(g, a)).data]
    IN  [out EXCEPT !.data = [pt \in DOMAIN out.data |-> rows[pt[1]][pt[2]]]]

\* ------------------------------------------------------------- evaluation
\* g(r, x): g of mesh (lattice, imtime) called at an integer vector r and a time
\* x.  The lattice is cyclic; between two time samples the value is interpolated
\* linearly; outside [0, beta] the function is continued with its statistics.
Lookup(g, r, x) ==
    LET tm == g.mesh[2]
        n == g.mesh[1].n
        b == BetaOf(tm)
        rr == <<r[1] % n, r[2] % n>>
        per == IF x >= 0 /\ x <= b THEN 0 ELSE x \div b
        y == x - per * b
        sgn == IF tm.stat = "Fermion" /\ per % 2 = 1 THEN P - 1 ELSE 1
        j == y \div tm.beta
        w == y % tm.beta
        v == IF w = 0 THEN g.data[<<rr, j>>]
             ELSE MulF(InvF(Num(tm.beta)),
                       AddF(MulF(Num(tm.beta - w), g.data[<<rr, j>>]),
                            MulF(Num(w), g.data[<<rr, j + 1>>])))
    IN  MulF(sgn, v)

\* Whether (r, x) is a sample of the mesh (lattice n x n, time mesh tm), r taken
\* on the periodic lattice.
OnMesh(r, x, n, tm) ==
    /\ <<r[1] % n, r[2] % n>> \in Lat(n)
    /\ x \in {TauVal(j) : j \in Points(tm)}

\* ------------------------------------------------------------- reflection
\* beta of the notebook, in the time unit of tau_mesh.
BetaU == Beta * (tau_mesh.n - 1)

\* minus_r = -(np.array(r.value, dtype=np.int))
PyMinusR(r) == <<-r[1], -r[2]>>

\* Mutant of PyMinusTau: beta forgotten.
PyMinusTauNoBeta(tau) == -tau

\* minus_tau = beta - tau
PyMinusTau(tau) == BetaU - tau

\* Mutant of PyLoopPoints: the sample tau = beta left out of the loop.
PyLoopPointsNoEnd == Points(r_mesh) \X (0..(tau_mesh.n - 2))

\* for r, tau in r_tau_mesh
PyLoopPoints == Points(r_mesh) \X Points(tau_mesh)

\* The point G0_r_tau is called at for the mesh point pt = (r, tau).
PyQuery(pt) == <<PyMinusR(pt[1]), PyMinusTau(TauVal(pt[2]))>>

\* for r, tau in r_tau_mesh: out[r,tau] = g(minus_r, minus_tau)
PyReflectInto(out, g) ==
    [out EXCEPT !.data = [pt \in DOMAIN out.data |->
        IF pt \in PyLoopPoints
        THEN Lookup(g, PyQuery(pt)[1], PyQuery(pt)[2])
        ELSE out.data[pt]]]

\* G0_r_tau.copy() followed by .zero()
ZeroCopy(g) == [g EXCEPT !.data = [pt \in DOMAIN g.data |-> 0]]

\* -r_ and beta - tau_ of the C++ expression; beta is tau_mesh.domain().beta.
CppMinusR(r) == <<-r[1], -r[2]>>

CppMinusTau(tm, tau) == BetaOf(tm) - tau

CppQuery(tm, pt) == <<CppMinusR(pt[1]), CppMinusTau(tm, TauVal(pt[2]))>>

\* Mutant of RPA: the factor 2 forgotten.
RPANoFactor(g, u) ==
    [mesh |-> g.mesh,
     data |-> [pt \in DOMAIN g.data |->
        MulF(g.data[pt], InvF(SubF(1, MulF(Num(u), g.data[pt]))))]]

\* ------------------------------------------------------------------- RPA
\* 2. * chi0 * inverse(1. - U * chi0), pointwise.
RPA(g, u) ==
    [mesh |-> g.mesh,
     data |-> [pt \in DOMAIN g.data |->
        MulF(MulF(2, g.data[pt]), InvF(SubF(1, MulF(Num(u), g.data[pt]))))]]

\* ------------------------------------------------------------------ state
VARIABLES
    pc,                    \* the statement the notebook is at
    run,                   \* evaluation of the step-wise route: 0 the cells, 1.. the %%timeit loops
    call,                  \* number of calls of bubble
    t, mu, U,              \* hopping, chemical potential, interaction
    G0, G0_r_iw, G0_r_tau, G0_minus_r_minus_tau,
    chi0_r_tau, chi0_r_iW, chi0, chi_RPA,
    tm_chi0_r_tau,         \* chi0_r_tau inside %%timeit: a local of the timed statement
    c_g0_r_tau, c_tau_mesh_bosonic, c_chi0, c_ret,   \* locals of bubble and its result
    stamp,                 \* per container, the evaluation that last wrote it
    reads,                 \* which stage read which container, and who had written it
    order,                 \* axes of the backward transform, in the order applied
    reflMap, c_reflMap,    \* the points the reflection called G0_r_tau at
    pyResults, cppResults  \* the chi0 each finished evaluation produced

pyVars == <<G0_r_iw, G0_r_tau, G0_minus_r_minus_tau, chi0_r_tau, chi0_r_iW, chi0,
            tm_chi0_r_tau, stamp, reads, order, reflMap, pyResults>>

cppVars == <<c_g0_r_tau, c_tau_mesh_bosonic, c_chi0, c_ret, c_reflMap, cppResults>>

vars == <<pc, run, call, t, mu, U, G0, chi_RPA, pyVars, cppVars>>

\* Inputs.  t = -1.0 and mu = 0. in the notebook.
TSet == {-1, 1}

MuSet == {0, 1}

USet == 0..(P - 1)

\* i w_n - eps + mu never vanishes for real eps, mu (w_n # 0).  Z_P does not tell
\* real from imaginary, so the inputs with a vanishing denominator are left out.
NoPole(tt, m) ==
    \A k \in Points(k_mesh), p \in Points(iw_mesh) : G0Den(tt, m, k, p) # 0

Containers == {"G0_r_iw", "G0_r_tau", "G0_minus_r_minus_tau", "chi0_r_tau",
               "chi0_r_iW", "chi0"}

Unwritten == 0 - 1

\* A stage of evaluation e reads container c.
Read(stage, c, e) == [stage |-> stage, of |-> c, exec |-> e, written |-> stamp[c]]

Init ==
    /\ pc = "G0"
    /\ run = 0
    /\ call = 0
    /\ t \in TSet
    /\ mu \in MuSet
    /\ NoPole(t, mu)
    /\ U = 2
    /\ G0 = NoGf
    /\ G0_r_iw = NoGf
    /\ G0_r_tau = NoGf
    /\ G0_minus_r_minus_tau = NoGf
    /\ chi0_r_tau = NoGf
    /\ chi0_r_iW = NoGf
    /\ chi0 = NoGf
    /\ chi_RPA = NoGf
    /\ tm_chi0_r_tau = NoGf
    /\ c_g0_r_tau = NoGf
    /\ c_tau_mesh_bosonic = MeshImTime(0, NoStat, 0)
    /\ c_chi0 = NoGf
    /\ c_ret = NoGf
    /\ stamp = [c \in Containers |-> Unwritten]
    /\ reads = {}
    /\ order = <<>>
    /\ reflMap = <<>>
    /\ c_reflMap = <<>>
    /\ pyResults = {}
    /\ cppResults = {}

\* --------------------------------------------------- the step-wise cells
\* G0 = Gf(mesh=k_iw_mesh); for k, iw in k_iw_mesh: G0[k,iw] = ...
CellG0 ==
    /\ pc = "G0"
    /\ G0' = BuildG0(t, mu)
    /\ pc' = "fourier_k"
    /\ UNCHANGED <<run, call, t, mu, U, chi_RPA, pyVars, cppVars>>

\* G0_r_iw, G0_r_tau = Gf(...); for iw in iw_mesh: G0_r_iw[:,iw] = fourier(G0[:,iw])
CellFourierK ==
    /\ pc = "fourier_k"
    /\ G0_r_iw' = FourierAxis0Into(Gf(r_iw_mesh), G0)
    /\ G0_r_tau' = Gf(r_tau_mesh)
    /\ stamp' = [stamp EXCEPT !["G0_r_iw"] = run]
    /\ pc' = "fourier_w"
    /\ UNCHANGED <<run, call, t, mu, U, G0, chi_RPA, cppVars, G0_minus_r_minus_tau,
                   chi0_r_tau, chi0_r_iW, chi0, tm_chi0_r_tau, reads, order, reflMap,
                   pyResults>>

\* for r in r_mesh: G0_r_tau[r,:] = fourier(G0_r_iw[r,:])
CellFourierW ==
    /\ pc = "fourier_w"
    /\ G0_r_tau' = FourierAxis1Into(G0_r_tau, G0_r_iw)
    /\ stamp' = [stamp EXCEPT !["G0_r_tau"] = run]
    /\ reads' = reads \cup {Read("fourier_w", "G0_r_iw", run)}
    /\ pc' = "reflect"
    /\ UNCHANGED <<run, call, t, mu, U, G0, chi_RPA, cppVars, G0_r_iw,
                   G0_minus_r_minus_tau, chi0_r_tau, chi0_r_iW, chi0, tm_chi0_r_tau,
                   order, reflMap, pyResults>>

\* G0_minus_r_minus_tau = G0_r_tau.copy(); .zero(); the reflection loop
CellReflect ==
    /\ pc = "reflect"
    /\ G0_minus_r_minus_tau' = PyReflectInto(ZeroCopy(G0_r_tau), G0_r_tau)
    /\ reflMap' = [pt \in PyLoopPoints |-> PyQuery(pt)]
    /\ stamp' = [stamp EXCEPT !["G0_minus_r_minus_tau"] = run]
    /\ reads' = reads \cup {Read("reflect", "G0_r_tau", run)}
    /\ pc' = "product"
    /\ UNCHANGED <<run, call, t, mu, U, G0, chi_RPA, cppVars, G0_r_iw, G0_r_tau,
                   chi0_r_tau, chi0_r_iW, chi0, tm_chi0_r_tau, order, pyResults>>

\* Mutant of CellProduct: the reflected factor replaced by G0_r_tau itself.
CellProductSquare ==
    /\ pc = "product"
    /\ chi0_r_tau' = GfMul(G0_r_tau, G0_r_tau)
    /\ stamp' = [stamp EXCEPT !["chi0_r_tau"] = run]
    /\ reads' = reads \cup {Read("product", "G0_r_tau", run)}
    /\ pc' = "back_tau"
    /\ UNCHANGED <<run, call, t, mu, U, G0, chi_RPA, cppVars, G0_r_iw, G0_r_tau,
                   G0_minus_r_minus_tau, chi0_r_iW, chi0, tm_chi0_r_tau, order,
                   reflMap, pyResults>>

\* chi0_r_tau = G0_r_tau * G0_minus_r_minus_tau
CellProduct ==
    /\ pc = "product"
    /\ chi0_r_tau' = GfMul(G0_r_tau, G0_minus_r_minus_tau)
    /\ stamp' = [stamp EXCEPT !["chi0_r_tau"] = run]
    /\ reads' = reads \cup {Read("product", "G0_r_tau", run),
                            Read("product", "G0_minus_r_minus_tau", run)}
    /\ pc' = "back_tau"
    /\ UNCHANGED <<run, call, t, mu, U, G0, chi_RPA, cppVars, G0_r_iw, G0_r_tau,
                   G0_minus_r_minus_tau, chi0_r_iW, chi0, tm_chi0_r_tau, order,
                   reflMap, pyResults>>

\* Mutant of CellBackTau: the lattice axis transformed first.
CellBackTauSpaceFirst ==
    /\ pc = "back_tau"
    /\ chi0_r_iW' = FourierAxis0Into(Gf(<<r_mesh, iW_mesh>>), chi0_r_tau)
    /\ chi0' = Gf(q_iW_mesh)
    /\ order' = <<"space">>
    /\ stamp' = [stamp EXCEPT !["chi0_r_iW"] = run]
    /\ reads' = reads \cup {Read("back_tau", "chi0_r_tau", run)}
    /\ pc' = "back_r"
    /\ UNCHANGED <<run, call, t, mu, U, G0, chi_RPA, cppVars, G0_r_iw, G0_r_tau,
                   G0_minus_r_minus_tau, chi0_r_tau, tm_chi0_r_tau, reflMap, pyResults>>

\* chi0_r_iW, chi0 = Gf(...); for r in r_mesh: chi0_r_iW[r,:] = fourier(chi0_r_tau[r,:])
CellBackTau ==
    /\ pc = "back_tau"
    /\ chi0_r_iW' = FourierAxis1Into(Gf(<<r_mesh, iW_mesh>>), chi0_r_tau)
    /\ chi0' = Gf(q_iW_mesh)
    /\ order' = <<"time">>
    /\ stamp' = [stamp EXCEPT !["chi0_r_iW"] = run]
    /\ reads' = reads \cup {Read("back_tau", "chi0_r_tau", run)}
    /\ pc' = "back_r"
    /\ UNCHANGED <<run, call, t, mu, U, G0, chi_RPA, cppVars, G0_r_iw, G0_r_tau,
                   G0_minus_r_minus_tau, chi0_r_tau, tm_chi0_r_tau, reflMap, pyResults>>

\* for iW in iW_mesh: chi0[:,iW] = fourier(chi0_r_iW[:,iW])
CellBackR ==
    /\ pc = "back_r"
    /\ chi0' = FourierAxis0Into(chi0, chi0_r_iW)
    /\ order' = Append(order, "space")
    /\ stamp' = [stamp EXCEPT !["chi0"] = run]
    /\ reads' = reads \cup {Read("back_r", "chi0_r_iW", run)}
    /\ pyResults' = pyResults \cup {chi0'.data}
    /\ pc' = "t_reflect"
    /\ UNCHANGED <<run, call, t, mu, U, G0, chi_RPA, cppVars, G0_r_iw, G0_r_tau,
                   G0_minus_r_minus_tau, chi0_r_tau, chi0_r_iW, tm_chi0_r_tau, reflMap>>

\* ------------------------------------------- the %%timeit cell, one loop
\* for r,tau in r_tau_mesh: G0_minus_r_minus_tau[r,tau] = G0_r_tau(minus_r, minus_tau)
TimeitReflect ==
    /\ pc = "t_reflect"
    /\ run' = run + 1
    /\ G0_minus_r_minus_tau' = PyReflectInto(G0_minus_r_minus_tau, G0_r_tau)
    /\ reflMap' = [pt \in PyLoopPoints |-> PyQuery(pt)]
    /\ stamp' = [stamp EXCEPT !["G0_minus_r_minus_tau"] = run']
    /\ reads' = reads \cup {Read("reflect", "G0_r_tau", run')}
    /\ order' = <<>>
    /\ pc' = "t_fourier_k"
    /\ UNCHANGED <<call, t, mu, U, G0, chi_RPA, cppVars, G0_r_iw, G0_r_tau,
                   chi0_r_tau, chi0_r_iW, chi0, tm_chi0_r_tau, pyResults>>

\* for iw in iw_mesh: G0_r_iw[:,iw] = make_gf_from_fourier(G0[:,iw])
TimeitFourierK ==
    /\ pc = "t_fourier_k"
    /\ G0_r_iw' = FourierAxis0Into(G0_r_iw, G0)
    /\ stamp' = [stamp EXCEPT !["G0_r_iw"] = run]
    /\ pc' = "t_fourier_w"
    /\ UNCHANGED <<run, call, t, mu, U, G0, chi_RPA, cppVars, G0_r_tau,
                   G0_minus_r_minus_tau, chi0_r_tau, chi0_r_iW, chi0, tm_chi0_r_tau,
                   reads, order, reflMap, pyResults>>

\* for r in r_mesh: G0_r_tau[r,:] = make_gf_from_fourier(G0_r_iw[r,:])
TimeitFourierW ==
    /\ pc = "t_fourier_w"
    /\ G0_r_tau' = FourierAxis1Into(G0_r_tau, G0_r_iw)
    /\ stamp' = [stamp EXCEPT !["G0_r_tau"] = run]
    /\ reads' = reads \cup {Read("fourier_w", "G0_r_iw", run)}
    /\ pc' = "t_product"
    /\ UNCHANGED <<run, call, t, mu, U, G0, chi_RPA, cppVars, G0_r_iw,
                   G0_minus_r_minus_tau, chi0_r_tau, chi0_r_iW, chi0, tm_chi0_r_tau,
                   order, reflMap, pyResults>>

\* Mutant of TimeitProduct: the product taken in place, G0_r_tau *= ...
TimeitProductInPlace ==
    /\ pc = "t_product"
    /\ G0_r_tau' = GfMul(G0_r_tau, G0_minus_r_minus_tau)
    /\ tm_chi0_r_tau' = G0_r_tau'
    /\ stamp' = [stamp EXCEPT !["chi0_r_tau"] = run]
    /\ reads' = reads \cup {Read("product", "G0_r_tau", run),
                            Read("product", "G0_minus_r_minus_tau", run)}
    /\ pc' = "t_back_tau"
    /\ UNCHANGED <<run, call, t, mu, U, G0, chi_RPA, cppVars, G0_r_iw,
                   G0_minus_r_minus_tau, chi0_r_tau, chi0_r_iW, chi0, order, reflMap,
                   pyResults>>

\* chi0_r_tau = G0_r_tau * G0_minus_r_minus_tau: binds a local of the timed code
TimeitProduct ==
    /\ pc = "t_product"
    /\ tm_chi0_r_tau' = GfMul(G0_r_tau, G0_minus_r_minus_tau)
    /\ stamp' = [stamp EXCEPT !["chi0_r_tau"] = run]
    /\ reads' = reads \cup {Read("product", "G0_r_tau", run),
                            Read("product", "G0_minus_r_minus_tau", run)}
    /\ pc' = "t_back_tau"
    /\ UNCHANGED <<run, call, t, mu, U, G0, chi_RPA, cppVars, G0_r_iw, G0_r_tau,
                   G0_minus_r_minus_tau, chi0_r_tau, chi0_r_iW, chi0, order, reflMap,
                   pyResults>>

\* for r in r_mesh: chi0_r_iW[r,:] = make_gf_from_fourier(chi0_r_tau[r,:])
TimeitBackTau ==
    /\ pc = "t_back_tau"
    /\ chi0_r_iW' = FourierAxis1Into(chi0_r_iW, tm_chi0_r_tau)
    /\ order' = <<"time">>
    /\ stamp' = [stamp EXCEPT !["chi0_r_iW"] = run]
    /\ reads' = reads \cup {Read("back_tau", "chi0_r_tau", run)}
    /\ pc' = "t_back_r"
    /\ UNCHANGED <<run, call, t, mu, U, G0, chi_RPA, cppVars, G0_r_iw, G0_r_tau,
                   G0_minus_r_minus_tau, chi0_r_tau, chi0, tm_chi0_r_tau, reflMap,
                   pyResults>>

\* for iW in iW_mesh: chi0[:,iW] = make_gf_from_fourier(chi0_r_iW[:,iW]); then
\* %%timeit either loops again or ends the cell.
TimeitBackR ==
    /\ pc = "t_back_r"
    /\ chi0' = FourierAxis0Into(chi0, chi0_r_iW)
    /\ order' = Append(order, "space")
    /\ stamp' = [stamp EXCEPT !["chi0"] = run]
    /\ reads' = reads \cup {Read("back_r", "chi0_r_iW", run)}
    /\ pyResults' = pyResults \cup {chi0'.data}
    /\ \/ run < MaxRuns /\ pc' = "t_reflect"
       \/ pc' = "c_fourier"
    /\ UNCHANGED <<run, call, t, mu, U, G0, chi_RPA, cppVars, G0_r_iw, G0_r_tau,
                   G0_minus_r_minus_tau, chi0_r_tau, chi0_r_iW, tm_chi0_r_tau, reflMap>>

\* ------------------------------------------------------ the C++ bubble
\* make_gf_from_fourier<0,1>(g): axis 0, then axis 1, each onto the adjoint mesh.
MakeGfFromFourier01(g) ==
    LET m0 == make_adjoint_mesh(g.mesh[1])
        m1 == make_adjoint_mesh(g.mesh[2])
    IN  FourierAxis1Into(Gf(<<m0, m1>>), FourierAxis0Into(Gf(<<m0, g.mesh[2]>>), g))

\* chi0[r_, tau_] << g0_r_tau(-r_, beta - tau_) * g0_r_tau(r_, tau_)
CppAssignInto(out, g) ==
    LET tm == g.mesh[2]
    IN  [out EXCEPT !.data = [pt \in DOMAIN out.data |->
            MulF(Lookup(g, CppQuery(tm, pt)[1], CppQuery(tm, pt)[2]),
                 Lookup(g, pt[1], TauVal(pt[2])))]]

\* chi0 = bubble(G0): auto g0_r_tau = make_gf_from_fourier<0,1>(g0)
CppFourier ==
    /\ pc = "c_fourier"
    /\ call' = call + 1
    /\ c_g0_r_tau' = MakeGfFromFourier01(G0)
    /\ c_tau_mesh_bosonic' = MeshImTime(0, NoStat, 0)
    /\ c_chi0' = NoGf
    /\ c_ret' = NoGf
    /\ c_reflMap' = <<>>
    /\ pc' = "c_mesh"
    /\ UNCHANGED <<run, t, mu, U, G0, chi_RPA, pyVars, cppResults>>

\* auto [r_mesh, tau_mesh] = g0_r_tau.mesh(); beta; tau_mesh_bosonic; chi0
CppMesh ==
    /\ pc = "c_mesh"
    /\ c_tau_mesh_bosonic' = MeshImTime(c_g0_r_tau.mesh[2].beta, "Boson",
                                        Size(c_g0_r_tau.mesh[2]))
    /\ c_chi0' = Gf(<<c_g0_r_tau.mesh[1], c_tau_mesh_bosonic'>>)
    /\ pc' = "c_assign"
    /\ UNCHANGED <<run, call, t, mu, U, G0, chi_RPA, pyVars, c_g0_r_tau, c_ret,
                   c_reflMap, cppResults>>

CppAssign ==
    /\ pc = "c_assign"
    /\ c_chi0' = CppAssignInto(c_chi0, c_g0_r_tau)
    /\ c_reflMap' = [pt \in DOMAIN c_chi0.data |-> CppQuery(c_g0_r_tau.mesh[2], pt)]
    /\ pc' = "c_return"
    /\ UNCHANGED <<run, call, t, mu, U, G0, chi_RPA, pyVars, c_g0_r_tau,
                   c_tau_mesh_bosonic, c_ret, cppResults>>

\* return make_gf_from_fourier<0,1>(chi0); then %%timeit loops again or ends.
CppReturn ==
    /\ pc = "c_return"
    /\ c_ret' = MakeGfFromFourier01(c_chi0)
    /\ cppResults' = cppResults \cup {c_ret'.data}
    /\ \/ call < MaxRuns /\ pc' = "c_fourier"
       \/ pc' = "rpa"
    /\ UNCHANGED <<run, call, t, mu, U, G0, chi_RPA, pyVars, c_g0_r_tau,
                   c_tau_mesh_bosonic, c_chi0, c_reflMap>>

\* ------------------------------------------------------------------- RPA
\* Mutant of CellRPA: a vanishing denominator raises and the cell stops.
CellRPARaises ==
    /\ pc = "rpa"
    /\ \E u \in USet :
          /\ U' = u
          /\ IF \E pt \in DOMAIN chi0.data : SubF(1, MulF(Num(u), chi0.data[pt])) = 0
             THEN chi_RPA' = chi_RPA /\ pc' = "aborted"
             ELSE chi_RPA' = RPA(chi0, u) /\ pc' = "done"
    /\ reads' = reads \cup {Read("rpa", "chi0", run)}
    /\ UNCHANGED <<run, call, t, mu, G0, cppVars, G0_r_iw, G0_r_tau,
                   G0_minus_r_minus_tau, chi0_r_tau, chi0_r_iW, chi0, tm_chi0_r_tau,
                   stamp, order, reflMap, pyResults>>

\* U = 2.; chi_RPA = 2. * chi0 * inverse(1. - U * chi0)
CellRPA ==
    /\ pc = "rpa"
    /\ \E u \in USet :
          /\ U' = u
          /\ chi_RPA' = RPA(chi0, u)
    /\ reads' = reads \cup {Read("rpa", "chi0", run)}
    /\ pc' = "done"
    /\ UNCHANGED <<run, call, t, mu, G0, cppVars, G0_r_iw, G0_r_tau,
                   G0_minus_r_minus_tau, chi0_r_tau, chi0_r_iW, chi0, tm_chi0_r_tau,
                   stamp, order, reflMap, pyResults>>

Next ==
    \/ CellG0 \/ CellFourierK \/ CellFourierW \/ CellReflect \/ CellProduct
    \/ CellBackTau \/ CellBackR
    \/ TimeitReflect \/ TimeitFourierK \/ TimeitFourierW \/ TimeitProduct
    \/ TimeitBackTau \/ TimeitBackR
    \/ CppFourier \/ CppMesh \/ CppAssign \/ CppReturn
    \/ CellRPA

Spec == Init /\ [][Next]_vars

\* ================================================================ claims
Bound(g) == g # NoGf

\* The time mesh of g is bosonic, has G0's beta and number of points, and is not
\* the time mesh of G0(r,tau) itself.
FreshBosonicTime(g, g0rt) ==
    /\ g.mesh[2].stat = "Boson"
    /\ g.mesh[2].beta = g0rt.mesh[2].beta
    /\ g.mesh[2].n = g0rt.mesh[2].n
    /\ g.mesh[2] # g0rt.mesh[2]

\* C1: in every bubble evaluation, of the step-wise route (in the cells and in
\* the timed cell) and of the C++ bubble, the chi0(r,tau) handed to the backward
\* transform lives on a fresh bosonic time mesh with G0's beta and size.
C1_FreshBosonicTimeMesh ==
    /\ Bound(chi0_r_tau) => FreshBosonicTime(chi0_r_tau, G0_r_tau)
    /\ Bound(tm_chi0_r_tau) => FreshBosonicTime(tm_chi0_r_tau, G0_r_tau)
    /\ Bound(c_chi0) => FreshBosonicTime(c_chi0, c_g0_r_tau)

\* Every point the reflection asked for is a sample of the (n x n, tm) mesh;
\* r = 0 goes to r = 0, tau = 0 to beta and beta to 0.
ReflectionOnMesh(map, n, tm) ==
    \A pt \in DOMAIN map :
        /\ OnMesh(map[pt][1], map[pt][2], n, tm)
        /\ pt[1] = <<0, 0>> => <<map[pt][1][1] % n, map[pt][1][2] % n>> = <<0, 0>>
        /\ pt[2] = 0 => map[pt][2] = TauVal(tm.n - 1)
        /\ pt[2] = tm.n - 1 => map[pt][2] = TauVal(0)

\* C2: for every point (r, tau) of the product mesh the reflected point
\* (-r, beta - tau) is exactly a sample of the same mesh, in both routes; r = 0
\* maps to itself, tau = 0 and tau = beta map to each other.
C2_ReflectedPointOnMesh ==
    /\ ReflectionOnMesh(reflMap, r_mesh.n, tau_mesh)
    /\ ReflectionOnMesh(c_reflMap, r_mesh.n, tau_mesh)

C2_Witness ==
    /\ c_reflMap # <<>>
    /\ \E pt \in DOMAIN reflMap :
          /\ pt[1] # <<0, 0>> /\ pt[2] > 0 /\ pt[2] < tau_mesh.n - 1
          /\ reflMap[pt] = c_reflMap[pt]
          /\ reflMap[pt][2] # TauVal(pt[2])

\* C3, as stated: the backward transform takes the lattice axis first and the
\* time axis second.
C3_SpaceThenTime ==
    /\ Len(order) >= 1 => order[1] = "space"
    /\ Len(order) >= 2 => order[2] = "time"

\* C3, amended: in the step-wise route the backward transform takes the time
\* axis first (for each r, onto chi0_r_iW on the (r, iW) mesh) and the lattice
\* axis second (for each iW), one axis at a time.
C3_TimeThenSpace ==
    /\ Len(order) <= 2
    /\ Len(order) >= 1 => order[1] = "time"
    /\ Len(order) >= 2 => order[2] = "space"
    /\ pc \in {"back_r", "t_back_r"} =>
          /\ Len(order) = 1
          /\ chi0_r_iW.mesh = <<r_mesh, iW_mesh>>
          /\ stamp["chi0_r_iW"] = run

C3_Witness == Len(order) = 2 /\ run >= 1 /\ stamp["chi0"] = run

\* C4: every stage of an evaluation reads only what an earlier step of the same
\* evaluation has written: the reflection reads the G0(r,tau) of this
\* evaluation's transforms, the product the finished reflection, the RPA the
\* finished chi0.
C4_ForwardDataFlow == \A rd \in reads : rd.written = rd.exec

C6_ZeroInteraction ==
    (pc = "done" /\ U = 0) =>
        \A pt \in DOMAIN chi0.data : chi_RPA.data[pt] = MulF(2, chi0.data[pt])

C6_Witness ==
    /\ pc = "done" /\ U = 0
    /\ \E pt \in DOMAIN chi0.data : chi0.data[pt] # 0 /\ chi_RPA.data[pt] # 0

\* C8: where 1 - U chi0 vanishes the RPA cell stores a singular value and does
\* not stop; every other point holds 2 chi0 / (1 - U chi0).
C8_SingularPropagates ==
    /\ pc # "aborted"
    /\ pc = "done" =>
          \A pt \in DOMAIN chi0.data :
             LET d == (1 - U * chi0.data[pt]) % P
             IN  chi_RPA.data[pt] =
                    IF d = 0 THEN Singular
                    ELSE (2 * chi0.data[pt] * InvTab[d]) % P

C8_Witness ==
    /\ pc = "done"
    /\ \E pt \in DOMAIN chi0.data : chi_RPA.data[pt] = Singular
    /\ \E pt \in DOMAIN chi0.data : chi_RPA.data[pt] \notin {Singular, 0}

\* g takes the same value at the samples tau = 0 and tau = beta, for every r.
Periodic(g) ==
    \A r \in Points(g.mesh[1]) : g.data[<<r, 0>>] = g.data[<<r, g.mesh[2].n - 1>>]

\* C9: the chi0(r,tau) of the bubble step is periodic in tau with period beta:
\* its samples at tau = 0 and tau = beta agree, without a sign, for every r.
C9_BosonicPeriodic ==
    /\ Bound(chi0_r_tau) => Periodic(chi0_r_tau)
    /\ Bound(tm_chi0_r_tau) => Periodic(tm_chi0_r_tau)
    /\ c_reflMap # <<>> => Periodic(c_chi0)

C9_Witness ==
    /\ Bound(tm_chi0_r_tau) /\ c_reflMap # <<>>
    /\ \E r \in Points(r_mesh) :
          /\ r # <<0, 0>>
          /\ chi0_r_tau.data[<<r, 0>>] # 0
          /\ G0_r_tau.data[<<r, 0>>] # G0_r_tau.data[<<r, tau_mesh.n - 1>>]
          /\ c_chi0.data[<<r, 0>>] # 0

\* G0(r,tau) G0(-r, beta - tau) read off the stored samples of g.
BubbleProduct(g, pt) ==
    LET n == g.mesh[1].n
        mr == <<(n - pt[1][1]) % n, (n - pt[1][2]) % n>>
        mj == (g.mesh[2].n - 1) - pt[2]
    IN  (g.data[pt] * g.data[<<mr, mj>>]) % P

\* C10: for the same G0 both routes store G0(r,tau) G0(-r, beta - tau) at every
\* point (r, tau), so that they hand the same values to the backward transform.
C10_RoutesAgree ==
    (c_reflMap # <<>> /\ Bound(chi0_r_tau)) =>
        /\ chi0_r_tau.data = c_chi0.data
        /\ Bound(tm_chi0_r_tau) => tm_chi0_r_tau.data = c_chi0.data
        /\ \A pt \in DOMAIN c_chi0.data :
              c_chi0.data[pt] = BubbleProduct(c_g0_r_tau, pt)

C10_Witness ==
    /\ c_reflMap # <<>> /\ Bound(chi0_r_tau) /\ Bound(tm_chi0_r_tau)
    /\ \E pt \in DOMAIN c_chi0.data :
          /\ pt[1] # <<0, 0>> /\ c_chi0.data[pt] # 0
          /\ c_chi0.data[pt] # (c_g0_r_tau.data[pt] * c_g0_r_tau.data[pt]) % P
====
